---- MODULE Spec2Model ----
(***************************************************************************)
(* Admin contact controller of the exchange server (getContacts,           *)
(* addContact, updateContact, deleteContact, reorderContacts) over the     *)
(* AdminContact collection.  Every handler is an async function: it runs   *)
(* synchronously up to its first database call and resumes once per        *)
(* awaited call.  One action models the synchronous prefix (Call), one     *)
(* action models each awaited database call together with the code that    *)
(* runs when it resolves, and DbFail models an awaited call that rejects.  *)
(***************************************************************************)
EXTENDS Integers, Sequences, FiniteSets, TLC

(* ------------------------------------------------------------------ *)
(* Bounds and input sets                                               *)
(* ------------------------------------------------------------------ *)

\* Longest orderedIds array a reorder request carries.
MaxLen == 3

\* ObjectIds in the order new AdminContact() hands them out.
IdOrder == <<"c1", "c2">>

Ids == {IdOrder[i] : i \in 1..Len(IdOrder)}

\* Concurrent request slots.
Reqs == {"r1", "r2"}

(* ------------------------------------------------------------------ *)
(* JavaScript values                                                   *)
(* ------------------------------------------------------------------ *)

\* Strings are sequences of characters; undefined and null are tagged.
Undefined == [t |-> "undefined"]

Null == [t |-> "null"]

Str(s) == [t |-> "string", v |-> s]

\* JavaScript truthiness of a string-or-undefined-or-null value (!x is its negation).
Truthy(x) == x.t = "string" /\ x.v # <<>>

RECURSIVE TrimLeft(_)
TrimLeft(s) == IF s # <<>> /\ Head(s) = " " THEN TrimLeft(Tail(s)) ELSE s

RECURSIVE TrimRight(_)
TrimRight(s) ==
  IF s # <<>> /\ s[Len(s)] = " " THEN TrimRight(SubSeq(s, 1, Len(s) - 1)) ELSE s

\* The schema's trim: true setter.
Trim(s) == TrimRight(TrimLeft(s))

\* res.locals.user: absent, or a user object with its user_level_id.
NoUser == [t |-> "undefined"]

User(l) == [t |-> "object", user_level_id |-> l]

UserLevels == {1, 2, 3}

Callers == {NoUser} \cup {User(l) : l \in UserLevels}

\* Request bodies of addContact.
AddBodies ==
  { [name |-> Str(<<" ", "n">>), title |-> Str(<<"t">>), email |-> Str(<<"a", " ">>)],
    [name |-> Str(<<"n">>), title |-> Str(<<"t">>), email |-> Str(<<"b">>)],
    [name |-> Str(<<" ">>), title |-> Str(<<"t">>), email |-> Str(<<"a">>)],
    [name |-> Undefined, title |-> Str(<<"t">>), email |-> Str(<<"a">>)],
    [name |-> Str(<<"n">>), title |-> Str(<<>>), email |-> Str(<<"a">>)],
    [name |-> Str(<<"n">>), title |-> Str(<<"t">>), email |-> Undefined] }

\* Request bodies of updateContact (an absent key is undefined).
UpdateBodies ==
  { [name |-> Str(<<"m", " ">>), title |-> Undefined, email |-> Undefined],
    [name |-> Undefined, title |-> Str(<<" ">>), email |-> Undefined],
    [name |-> Undefined, title |-> Undefined, email |-> Str(<<"b">>)] }

NoBody == [name |-> Undefined, title |-> Undefined, email |-> Undefined]

\* orderedIds of a reorder request: not an array, or an array of ids.
IdLists == UNION {[1..n -> Ids] : n \in 0..MaxLen}

Array(s) == [t |-> "array", v |-> s]

OrderedIdsInputs == {Undefined} \cup {Array(s) : s \in IdLists}

\* Contents of the user collection a userModel.find may see.
UserDbs ==
  { <<>>,
    <<[email |-> <<"a">>, avatarUrl |-> Str(<<"p">>)]>>,
    <<[email |-> <<"a">>, avatarUrl |-> Str(<<>>)]>>,
    <<[email |-> <<"b">>, avatarUrl |-> Undefined]>>,
    <<[email |-> <<"a">>, avatarUrl |-> Str(<<"p">>)],
      [email |-> <<"b">>, avatarUrl |-> Str(<<"q">>)]>>,
    <<[email |-> <<"a">>, avatarUrl |-> Str(<<"p">>)],
      [email |-> <<"a">>, avatarUrl |-> Undefined]>> }

(* ------------------------------------------------------------------ *)
(* State                                                               *)
(* ------------------------------------------------------------------ *)

VARIABLES
  contacts,   \* the AdminContact collection: a set of stored documents
  allocated,  \* how many ObjectIds new AdminContact() has handed out
  req,        \* per slot: the request (handler, res.locals.user, params, body)
  pc,         \* per slot: where the handler is suspended
  loc,        \* per slot: the handler's local variables
  res,        \* per slot: the response written with res.status().json()
  err,        \* per slot: the status of the CustomError given to next(), 0 if none
  hist        \* per slot: the collection when the request began, and whether
              \* another request wrote to it since

vars == <<contacts, allocated, req, pc, loc, res, err, hist>>

NoReq ==
  [op |-> "none", user |-> NoUser, id |-> IdOrder[1], body |-> NoBody,
   orderedIds |-> Undefined]

NoLoc ==
  [index |-> 0, found |-> "unset", newContact |-> <<>>, contacts |-> <<>>,
   users |-> <<>>, error |-> "none"]

NoRes == [status |-> 0, body |-> <<>>]

NoHist == [before |-> {}, interfered |-> FALSE]

Init ==
  /\ contacts = {}
  /\ allocated = 0
  /\ req = [r \in Reqs |-> NoReq]
  /\ pc = [r \in Reqs |-> "idle"]
  /\ loc = [r \in Reqs |-> NoLoc]
  /\ res = [r \in Reqs |-> NoRes]
  /\ err = [r \in Reqs |-> 0]
  /\ hist = [r \in Reqs |-> NoHist]

(* ------------------------------------------------------------------ *)
(* Helpers                                                             *)
(* ------------------------------------------------------------------ *)

\* Mutant: every known level counts as an admin level.
IsAdminAnyLevel(user) == user.user_level_id \in {1, 2, 3}

\* [2, 3].includes(user.user_level_id)
IsAdmin(user) == user.user_level_id \in {2, 3}

\* Mutant: the level check is missing, only the presence of a user is checked.
AuthErrorOnlyPresence(user) == IF user = NoUser THEN 401 ELSE 0

\* The two checks every mutating handler starts with: the status of the
\* error it returns through next(), or 0 when the caller passes both.
AuthError(user) ==
  IF user = NoUser THEN 401
  ELSE IF ~IsAdmin(user) THEN 403
  ELSE 0

\* The documents of the collection with the given _id (at most one).
FindById(id) == {d \in contacts : d._id = id}

\* Mutant: the new contact is appended after the existing ones.
NewContactAppended(body) ==
  [_id |-> IdOrder[allocated + 1],
   name |-> Trim(body.name.v),
   title |-> Trim(body.title.v),
   email |-> Trim(body.email.v),
   position |-> Cardinality(contacts)]

\* new AdminContact({name, title, email}): a fresh _id, the trim setters
\* applied, position at its schema default.
NewContact(body) ==
  [_id |-> IdOrder[allocated + 1],
   name |-> Trim(body.name.v),
   title |-> Trim(body.title.v),
   email |-> Trim(body.email.v),
   position |-> 0]

\* The schema's required: true validators, run by save().
Valid(doc) == doc.name # <<>> /\ doc.title # <<>> /\ doc.email # <<>>

\* One field of an update: the key is absent, or its cast (trimmed) value.
Updated(old, new) == IF new.t = "string" THEN Trim(new.v) ELSE old

\* The document findByIdAndUpdate(id, updates) leaves in the collection.
ApplyUpdates(d, updates) ==
  [d EXCEPT !.name = Updated(d.name, updates.name),
            !.title = Updated(d.title, updates.title),
            !.email = Updated(d.email, updates.email)]

\* runValidators: true: a required path may not be set to the empty string.
ValidUpdates(updates) ==
  \A f \in {"name", "title", "email"} :
    updates[f].t = "string" => Trim(updates[f].v) # <<>>

\* Mutant: positions are numbered from one.
NewPositionOneBased(index) == index + 1

\* The position reorderContacts writes for the id at 0-based index.
NewPosition(index) == index

\* Mutant: the filter is lost and every contact gets the position.
SetPositionOfAll(id, index) ==
  {[d EXCEPT !.position = NewPosition(index)] : d \in contacts}

\* Mutant: upsert: true, a missing id gets a new contact.
SetPositionUpsert(id, index) ==
  IF FindById(id) = {}
  THEN contacts \cup
         {[_id |-> id, name |-> <<>>, title |-> <<>>, email |-> <<>>,
           position |-> NewPosition(index)]}
  ELSE {IF d._id = id THEN [d EXCEPT !.position = NewPosition(index)] ELSE d :
          d \in contacts}

\* findByIdAndUpdate(id, {position: index}) on the collection.
SetPosition(id, index) ==
  {IF d._id = id THEN [d EXCEPT !.position = NewPosition(index)] ELSE d : d \in contacts}

\* Mutant: sort({position: -1}).
SortedByPositionDescending(docs) ==
  {s \in [1..Cardinality(docs) -> docs] :
     /\ \A i, j \in 1..Cardinality(docs) : i # j => s[i] # s[j]
     /\ \A i, j \in 1..Cardinality(docs) : i < j => s[i].position >= s[j].position}

\* find().sort({position: 1}).lean(): every ordering of the collection by
\* ascending position (documents with equal position come in any order).
SortedByPosition(docs) ==
  {s \in [1..Cardinality(docs) -> docs] :
     /\ \A i, j \in 1..Cardinality(docs) : i # j => s[i] # s[j]
     /\ \A i, j \in 1..Cardinality(docs) : i < j => s[i].position <= s[j].position}

\* contacts.map((c) => c.email)
EmailsOf(cs) == {cs[i].email : i \in 1..Len(cs)}

\* userModel.find({email: {$in: emails}}).select('email avatarUrl').lean()
FindUsersByEmail(db, emails) ==
  LET In(u) == u.email \in emails IN SelectSeq(db, In)

\* new Map(users.map((u) => [u.email, u.avatarUrl])).get(email): the
\* avatarUrl of the last user with that email, undefined when there is none.
RECURSIVE UserMapGet(_, _)
UserMapGet(users, email) ==
  IF users = <<>> THEN Undefined
  ELSE IF users[Len(users)].email = email THEN users[Len(users)].avatarUrl
  ELSE UserMapGet(SubSeq(users, 1, Len(users) - 1), email)

\* userMap.get(contact.email) || null
AvatarOf(users, email) ==
  IF Truthy(UserMapGet(users, email)) THEN UserMapGet(users, email) ELSE Null

\* {...contact, avatarUrl: ...}
Enrich(c, users) ==
  [_id |-> c._id, name |-> c.name, title |-> c.title, email |-> c.email,
   position |-> c.position, avatarUrl |-> AvatarOf(users, c.email)]

EnrichedContacts(cs, users) == [i \in 1..Len(cs) |-> Enrich(cs[i], users)]

\* The other in-flight reorder requests see the collection change under
\* them (what they recorded at their start is then dropped).
Interfere(r, newContacts) ==
  [q \in Reqs |->
     IF q # r /\ pc[q] = "loop" /\ newContacts # contacts
     THEN [before |-> {}, interfered |-> TRUE]
     ELSE hist[q]]

\* The handler returns next(new CustomError(..., status)).
Fail(r, status) ==
  /\ pc' = [pc EXCEPT ![r] = "done"]
  /\ err' = [err EXCEPT ![r] = status]

\* The awaited call rejects with an error of the given kind: the catch
\* block logs it and forwards a 500.
Catch(r, kind) ==
  /\ loc' = [loc EXCEPT ![r].error = kind]
  /\ Fail(r, 500)

\* The handler writes res.status(status).json(body) and returns.
Respond(r, status, body) ==
  /\ pc' = [pc EXCEPT ![r] = "done"]
  /\ res' = [res EXCEPT ![r] = [status |-> status, body |-> body]]

\* A new request arrives in the free slot r.
Begin(r, request) ==
  /\ pc[r] = "idle"
  /\ req' = [req EXCEPT ![r] = request]

(* ------------------------------------------------------------------ *)
(* getContacts                                                         *)
(* ------------------------------------------------------------------ *)

\* The call: the handler issues AdminContact.find() and suspends.
CallGetContacts(r) ==
  /\ Begin(r, [NoReq EXCEPT !.op = "getContacts"])
  /\ pc' = [pc EXCEPT ![r] = "find"]
  /\ UNCHANGED <<contacts, allocated, loc, res, err, hist>>

\* AdminContact.find().sort().lean() resolves; userModel.find() is issued.
FindContacts(r) ==
  /\ pc[r] = "find"
  /\ \E cs \in SortedByPosition(contacts) :
       loc' = [loc EXCEPT ![r].contacts = cs]
  /\ pc' = [pc EXCEPT ![r] = "findUsers"]
  /\ UNCHANGED <<contacts, allocated, req, res, err, hist>>

\* userModel.find() resolves; the contacts are enriched and sent.
FindUsers(r, db) ==
  /\ pc[r] = "findUsers"
  /\ LET users == FindUsersByEmail(db, EmailsOf(loc[r].contacts)) IN
       /\ loc' = [loc EXCEPT ![r].users = users]
       /\ Respond(r, 200, EnrichedContacts(loc[r].contacts, users))
  /\ UNCHANGED <<contacts, allocated, req, err, hist>>

(* ------------------------------------------------------------------ *)
(* addContact                                                          *)
(* ------------------------------------------------------------------ *)

\* !name || !title || !email
MissingField(body) ==
  ~Truthy(body.name) \/ ~Truthy(body.title) \/ ~Truthy(body.email)

\* The call: the checks in order, then new AdminContact() and save() issued.
CallAddContact(r, user, body) ==
    /\ Begin(r, [NoReq EXCEPT !.op = "addContact", !.user = user, !.body = body])
    /\ IF AuthError(user) # 0
       THEN /\ Fail(r, AuthError(user))
            /\ UNCHANGED <<allocated, loc>>
       ELSE IF MissingField(body)
       THEN /\ Fail(r, 400)
            /\ UNCHANGED <<allocated, loc>>
       ELSE /\ allocated < Len(IdOrder)
            /\ loc' = [loc EXCEPT ![r].newContact = NewContact(body)]
            /\ allocated' = allocated + 1
            /\ pc' = [pc EXCEPT ![r] = "save"]
            /\ UNCHANGED err
    /\ UNCHANGED <<contacts, res, hist>>

\* newContact.save() resolves, or rejects with a validation error.
Save(r) ==
  /\ pc[r] = "save"
  /\ IF Valid(loc[r].newContact)
     THEN /\ contacts' = contacts \cup {loc[r].newContact}
          /\ Respond(r, 201, <<loc[r].newContact>>)
          /\ hist' = Interfere(r, contacts')
          /\ UNCHANGED <<err, loc>>
     ELSE /\ Catch(r, "ValidationError")
          /\ UNCHANGED <<contacts, res, hist>>
  /\ UNCHANGED <<allocated, req>>

(* ------------------------------------------------------------------ *)
(* updateContact                                                       *)
(* ------------------------------------------------------------------ *)

\* The call: the checks, then findByIdAndUpdate(id, updates) issued.
CallUpdateContact(r, user, id, body) ==
    /\ Begin(r, [NoReq EXCEPT !.op = "updateContact", !.user = user,
                              !.id = id, !.body = body])
    /\ IF AuthError(user) # 0
       THEN Fail(r, AuthError(user))
       ELSE /\ pc' = [pc EXCEPT ![r] = "findByIdAndUpdate"]
            /\ UNCHANGED err
    /\ UNCHANGED <<contacts, allocated, loc, res, hist>>

\* The collection after findByIdAndUpdate(id, updates).
UpdatedCollection(id, updates) ==
  {IF d._id = id THEN ApplyUpdates(d, updates) ELSE d : d \in contacts}

\* findByIdAndUpdate resolves (with the updated document or null), or
\* rejects with a validation error.
FindByIdAndUpdate(r) ==
  /\ pc[r] = "findByIdAndUpdate"
  /\ IF ~ValidUpdates(req[r].body)
     THEN /\ Catch(r, "ValidationError")
          /\ UNCHANGED <<contacts, res, hist>>
     ELSE IF FindById(req[r].id) = {}
     THEN /\ loc' = [loc EXCEPT ![r].found = "null"]
          /\ Fail(r, 404)
          /\ UNCHANGED <<contacts, res, hist>>
     ELSE /\ contacts' = UpdatedCollection(req[r].id, req[r].body)
          /\ loc' = [loc EXCEPT ![r].found = "document"]
          /\ Respond(r, 200,
                     <<ApplyUpdates(CHOOSE d \in FindById(req[r].id) : TRUE,
                                    req[r].body)>>)
          /\ hist' = Interfere(r, contacts')
          /\ UNCHANGED err
  /\ UNCHANGED <<allocated, req>>

(* ------------------------------------------------------------------ *)
(* deleteContact                                                       *)
(* ------------------------------------------------------------------ *)

\* The call: the checks, then findByIdAndDelete(id) issued.
CallDeleteContact(r, user, id) ==
    /\ Begin(r, [NoReq EXCEPT !.op = "deleteContact", !.user = user, !.id = id])
    /\ IF AuthError(user) # 0
       THEN Fail(r, AuthError(user))
       ELSE /\ pc' = [pc EXCEPT ![r] = "findByIdAndDelete"]
            /\ UNCHANGED err
    /\ UNCHANGED <<contacts, allocated, loc, res, hist>>

\* Mutant: the filter is lost and every contact is deleted.
DeletedAll(id) == IF FindById(id) = {} THEN contacts ELSE {}

\* The collection after findByIdAndDelete(id).
Deleted(id) == contacts \ FindById(id)

\* findByIdAndDelete resolves with the deleted document or null.
FindByIdAndDelete(r) ==
  /\ pc[r] = "findByIdAndDelete"
  /\ IF FindById(req[r].id) = {}
     THEN /\ loc' = [loc EXCEPT ![r].found = "null"]
          /\ Fail(r, 404)
          /\ UNCHANGED <<contacts, res, hist>>
     ELSE /\ contacts' = Deleted(req[r].id)
          /\ loc' = [loc EXCEPT ![r].found = "document"]
          /\ Respond(r, 200, <<>>)
          /\ hist' = Interfere(r, contacts')
          /\ UNCHANGED err
  /\ UNCHANGED <<allocated, req>>

(* ------------------------------------------------------------------ *)
(* reorderContacts                                                     *)
(* ------------------------------------------------------------------ *)

\* !Array.isArray(orderedIds) || orderedIds.length === 0
InvalidOrderedIds(orderedIds) ==
  orderedIds.t # "array" \/ Len(orderedIds.v) = 0

\* The call: the checks, then the loop's first findByIdAndUpdate issued.
CallReorderContacts(r, user, orderedIds) ==
    /\ Begin(r, [NoReq EXCEPT !.op = "reorderContacts", !.user = user,
                              !.orderedIds = orderedIds])
    /\ IF AuthError(user) # 0
       THEN /\ Fail(r, AuthError(user))
            /\ UNCHANGED hist
       ELSE IF InvalidOrderedIds(orderedIds)
       THEN /\ Fail(r, 400)
            /\ UNCHANGED hist
       ELSE /\ pc' = [pc EXCEPT ![r] = "loop"]
            /\ hist' = [hist EXCEPT ![r] = [before |-> contacts, interfered |-> FALSE]]
            /\ UNCHANGED err
    /\ UNCHANGED <<contacts, allocated, loc, res>>

\* One awaited findByIdAndUpdate(orderedIds[index], {position: index})
\* resolves; the loop issues the next one, or ends and the response is sent.
ReorderUpdate(r) ==
  /\ pc[r] = "loop"
  /\ LET index == loc[r].index
         ids == req[r].orderedIds.v IN
       /\ contacts' = SetPosition(ids[index + 1], index)
       /\ loc' = [loc EXCEPT ![r].index = index + 1]
       /\ hist' = Interfere(r, contacts')
       /\ IF index + 1 < Len(ids)
          THEN UNCHANGED <<pc, res>>
          ELSE Respond(r, 200, <<>>)
  /\ UNCHANGED <<allocated, req, err>>

(* ------------------------------------------------------------------ *)
(* Database failure, end of a request                                  *)
(* ------------------------------------------------------------------ *)

Awaiting(r) ==
  pc[r] \in {"find", "findUsers", "save", "findByIdAndUpdate",
             "findByIdAndDelete", "loop"}

\* Mutant: the catch block swallows the error and forwards nothing.
DbFailSwallowed(r) ==
  /\ Awaiting(r)
  /\ pc' = [pc EXCEPT ![r] = "done"]
  /\ loc' = [loc EXCEPT ![r].error = "Error"]
  /\ UNCHANGED <<contacts, allocated, req, res, err, hist>>

\* Mutant: the failed reorder is rolled back, as in a transaction.
DbFailRollback(r) ==
  /\ Awaiting(r)
  /\ Catch(r, "Error")
  /\ contacts' = IF pc[r] = "loop" THEN hist[r].before ELSE contacts
  /\ UNCHANGED <<allocated, req, res, hist>>

\* The database fails: the awaited call rejects, having written nothing.
DbFail(r) ==
  /\ Awaiting(r)
  /\ Catch(r, "Error")
  /\ UNCHANGED <<contacts, allocated, req, res, hist>>

\* The exchange is over: the slot is free for the next request.
Finish(r) ==
  /\ pc[r] = "done"
  /\ pc' = [pc EXCEPT ![r] = "idle"]
  /\ req' = [req EXCEPT ![r] = NoReq]
  /\ loc' = [loc EXCEPT ![r] = NoLoc]
  /\ res' = [res EXCEPT ![r] = NoRes]
  /\ err' = [err EXCEPT ![r] = 0]
  /\ hist' = [hist EXCEPT ![r] = NoHist]
  /\ UNCHANGED <<contacts, allocated>>

(* ------------------------------------------------------------------ *)
(* Specifications                                                      *)
(* ------------------------------------------------------------------ *)

\* A database call of slot r resolves.
Resolve(r, dbs) ==
  \/ FindContacts(r)
  \/ \E db \in dbs : FindUsers(r, db)
  \/ Save(r)
  \/ FindByIdAndUpdate(r)
  \/ FindByIdAndDelete(r)
  \/ ReorderUpdate(r)

\* One request at a time (no other request interleaves), over every input.
NextSeq ==
  \/ CallGetContacts("r1")
  \/ \E user \in Callers, body \in AddBodies : CallAddContact("r1", user, body)
  \/ \E user \in Callers, id \in Ids, body \in UpdateBodies :
       CallUpdateContact("r1", user, id, body)
  \/ \E user \in Callers, id \in Ids : CallDeleteContact("r1", user, id)
  \/ \E user \in Callers, orderedIds \in OrderedIdsInputs :
       CallReorderContacts("r1", user, orderedIds)
  \/ Resolve("r1", UserDbs)
  \/ DbFail("r1")
  \/ Finish("r1")

SeqSpec == Init /\ [][NextSeq]_vars

\* The inputs of the concurrent specification.
ConcAddBodies ==
  { [name |-> Str(<<" ", "n">>), title |-> Str(<<"t">>), email |-> Str(<<"a", " ">>)],
    [name |-> Undefined, title |-> Str(<<"t">>), email |-> Str(<<"a">>)] }

ConcUpdateBodies ==
  { [name |-> Undefined, title |-> Undefined, email |-> Str(<<"b">>)] }

ConcOrderedIds ==
  {Array(s) : s \in {<<"c1">>, <<"c1", "c2">>, <<"c2", "c1">>}}

ConcUserDbs == {<<[email |-> <<"a">>, avatarUrl |-> Str(<<"p">>)]>>}

ConcCallers == {NoUser, User(1), User(3)}

\* Requests are served concurrently: the database calls of the requests in
\* the slots interleave in any order.
Next ==
  \E r \in Reqs :
    \/ CallGetContacts(r)
    \/ \E user \in ConcCallers, body \in ConcAddBodies : CallAddContact(r, user, body)
    \/ \E user \in ConcCallers, id \in Ids, body \in ConcUpdateBodies :
         CallUpdateContact(r, user, id, body)
    \/ \E user \in ConcCallers, id \in Ids : CallDeleteContact(r, user, id)
    \/ \E user \in ConcCallers, orderedIds \in ConcOrderedIds :
         CallReorderContacts(r, user, orderedIds)
    \/ Resolve(r, ConcUserDbs)
    \/ DbFail(r)
    \/ Finish(r)

Spec == Init /\ [][Next]_vars

(* ------------------------------------------------------------------ *)
(* Vocabulary of the properties                                        *)
(* ------------------------------------------------------------------ *)

Mutators == {"addContact", "updateContact", "deleteContact", "reorderContacts"}

Ended(r) == pc[r] = "done"

\* The request in slot r was made by a user of admin level.
ByAdmin(r) == req[r].user # NoUser /\ req[r].user.user_level_id \in {2, 3}

\* The handler in slot r takes a step (it resumes, or its call rejects).
Resumes(r) == Awaiting(r) /\ (pc'[r] # pc[r] \/ loc'[r] # loc[r])

IdsOf(docs) == {d._id : d \in docs}

\* The slots that wait for a call that writes to the collection.
Writing(r) == pc[r] \in {"save", "findByIdAndUpdate", "findByIdAndDelete", "loop"}

\* The last (1-based) place of id among the first k entries of ids, 0 if none.
LastPlace(ids, k, id) ==
  IF \E j \in 1..k : ids[j] = id
  THEN CHOOSE j \in 1..k : ids[j] = id /\ \A m \in (j + 1)..k : ids[m] # id
  ELSE 0

Distinct(ids) == \A i, j \in 1..Len(ids) : i # j => ids[i] # ids[j]

(* ------------------------------------------------------------------ *)
(* C1                                                                  *)
(* ------------------------------------------------------------------ *)

\* C1: a request to addContact, updateContact, deleteContact or
\* reorderContacts made without a current user ends with error 401, and
\* one made by a user whose user_level_id is neither 2 nor 3 ends with
\* error 403, whatever its payload; neither gets a success response (and
\* neither is ever left waiting for a database call).
C1_AuthRejected ==
  \A r \in Reqs :
    req[r].op \in Mutators =>
      /\ req[r].user = NoUser =>
           Ended(r) /\ err[r] = 401 /\ res[r].status = 0
      /\ (req[r].user # NoUser /\ req[r].user.user_level_id \notin {2, 3}) =>
           Ended(r) /\ err[r] = 403 /\ res[r].status = 0

\* A non-admin's deleteContact of an existing contact ended with 403.
C1_Witness ==
  \E r \in Reqs :
    /\ req[r].op = "deleteContact"
    /\ req[r].user = User(1)
    /\ FindById(req[r].id) # {}
    /\ Ended(r) /\ err[r] = 403

(* ------------------------------------------------------------------ *)
(* C2                                                                  *)
(* ------------------------------------------------------------------ *)

\* C2: under any interleaving of the five handlers the AdminContact
\* collection changes only in a step of a request whose current user has
\* user_level_id 2 or 3, and a request with no user or a non-admin user
\* never waits for (has never issued) a database write.
C2_WritesOnlyByAdmins ==
  /\ [](\A r \in Reqs : Writing(r) => ByAdmin(r))
  /\ [][contacts' # contacts => \E r \in Reqs : Resumes(r) /\ ByAdmin(r)]_vars

\* An admin's addContact has written a contact while the other slot holds
\* a non-admin's mutation, rejected with 403.
C2_Witness ==
  \E r, q \in Reqs :
    /\ r # q
    /\ req[r].op = "addContact" /\ ByAdmin(r) /\ res[r].status = 201
    /\ contacts # {}
    /\ req[q].op \in Mutators /\ req[q].user = User(1) /\ err[q] = 403

(* ------------------------------------------------------------------ *)
(* C3                                                                  *)
(* ------------------------------------------------------------------ *)

\* A reorder request served alone has answered 200.
ReorderDone(r) ==
  /\ req[r].op = "reorderContacts"
  /\ ByAdmin(r)
  /\ Ended(r)
  /\ res[r].status = 200

\* C3 as stated: after an admin's reorderContacts with a non-empty list,
\* no failing database call and no other request interleaving, the 200
\* response finds the contact with id orderedIds[i] at position i, for
\* every index i.
C3_PositionIsIndex ==
  \A r \in Reqs :
    ReorderDone(r) =>
      \A i \in 1..Len(req[r].orderedIds.v) :
        \A d \in FindById(req[r].orderedIds.v[i]) : d.position = i - 1

\* C3 amended: under the same conditions every existing contact named in
\* the list has the position of the last index at which its id occurs in
\* the list, which is index i for every i when the ids are pairwise
\* distinct.
C3_PositionIsLastIndex ==
  \A r \in Reqs :
    ReorderDone(r) =>
      LET ids == req[r].orderedIds.v IN
        /\ \A i \in 1..Len(ids) :
             \A d \in FindById(ids[i]) :
               d.position = LastPlace(ids, Len(ids), ids[i]) - 1
        /\ Distinct(ids) =>
             \A i \in 1..Len(ids) : \A d \in FindById(ids[i]) : d.position = i - 1

\* A reorder of two distinct existing contacts has answered 200 and has
\* moved both of them.
C3_Witness ==
  \E r \in Reqs :
    /\ ReorderDone(r)
    /\ Len(req[r].orderedIds.v) = 2
    /\ Distinct(req[r].orderedIds.v)
    /\ \A i \in 1..2 :
         /\ FindById(req[r].orderedIds.v[i]) # {}
         /\ FindById(req[r].orderedIds.v[i]) \cap hist[r].before = {}

(* ------------------------------------------------------------------ *)
(* C4                                                                  *)
(* ------------------------------------------------------------------ *)

GetDone(r) == req[r].op = "getContacts" /\ Ended(r) /\ res[r].status = 200

\* The users found for the request in slot r that have the given email.
Matching(r, email) ==
  {j \in 1..Len(loc[r].users) : loc[r].users[j].email = email}

\* The response lists every contact of the collection, each once and with
\* its stored fields, in non-decreasing order of position.
AllSorted(r) ==
  LET body == res[r].body IN
    /\ Len(body) = Cardinality(contacts)
    /\ \A d \in contacts :
         \E i \in 1..Len(body) :
           /\ body[i]._id = d._id /\ body[i].name = d.name
           /\ body[i].title = d.title /\ body[i].email = d.email
           /\ body[i].position = d.position
    /\ \A i, j \in 1..Len(body) : i < j => body[i].position <= body[j].position

\* getContacts writes nothing to the contact collection.
GetReadsOnly ==
  [][\A r \in Reqs :
       (req[r].op = "getContacts" /\ Resumes(r)) \/ req'[r].op = "getContacts"
         => contacts' = contacts]_vars

\* C4 as stated: a successful getContacts returns all contacts in
\* non-decreasing order of position, each with an avatarUrl that is the
\* avatarUrl of a user with the contact's email, or null when no such user
\* exists.
C4_AvatarOfUserOrNull ==
  \A r \in Reqs :
    GetDone(r) =>
      /\ AllSorted(r)
      /\ \A i \in 1..Len(res[r].body) :
           LET e == res[r].body[i] IN
             \/ \E j \in Matching(r, e.email) : e.avatarUrl = loc[r].users[j].avatarUrl
             \/ e.avatarUrl = Null /\ Matching(r, e.email) = {}

\* C4 amended: a successful getContacts returns all contacts in
\* non-decreasing order of position, each with an avatarUrl that is never
\* missing: it is the non-empty avatarUrl string of a user with the
\* contact's email, or null when no such user exists or when such a user
\* has no avatarUrl or an empty one; getContacts changes no contact.
C4_SortedEnriched ==
  /\ [](\A r \in Reqs :
         GetDone(r) =>
           /\ AllSorted(r)
           /\ \A i \in 1..Len(res[r].body) :
                LET e == res[r].body[i] IN
                  \/ /\ e.avatarUrl.t = "string"
                     /\ e.avatarUrl.v # <<>>
                     /\ \E j \in Matching(r, e.email) :
                          e.avatarUrl = loc[r].users[j].avatarUrl
                  \/ /\ e.avatarUrl = Null
                     /\ \/ Matching(r, e.email) = {}
                        \/ \E j \in Matching(r, e.email) :
                             ~Truthy(loc[r].users[j].avatarUrl))
  /\ GetReadsOnly

\* A getContacts has returned two contacts at different positions, one
\* with the avatarUrl of its user and one with null.
C4_Witness ==
  \E r \in Reqs :
    /\ GetDone(r)
    /\ Len(res[r].body) = 2
    /\ res[r].body[1].position < res[r].body[2].position
    /\ \E i, j \in 1..2 :
         /\ res[r].body[i].avatarUrl = Null
         /\ res[r].body[j].avatarUrl.t = "string"

(* ------------------------------------------------------------------ *)
(* C5                                                                  *)
(* ------------------------------------------------------------------ *)

\* An admin's reorder has ended with the rejection of the update for
\* (0-based) index loc[r].index, the updates before it having resolved.
ReorderFailed(r) ==
  /\ req[r].op = "reorderContacts"
  /\ ByAdmin(r)
  /\ Ended(r)
  /\ err[r] = 500

\* C5 as stated: when the update for index k fails, the request ends with
\* error 500 and no success response, the contacts at indices 0..k-1 have
\* their newly written positions and the contacts at indices k and beyond
\* have the positions they had before the request.
C5_PrefixWrittenRestKept ==
  \A r \in Reqs :
    ReorderFailed(r) =>
      LET ids == req[r].orderedIds.v
          k == loc[r].index IN
        /\ res[r].status = 0
        /\ \A i \in 1..k : \A d \in FindById(ids[i]) : d.position = i - 1
        /\ \A i \in (k + 1)..Len(ids) :
             \A d \in FindById(ids[i]) : d \in hist[r].before

\* C5 amended: when the update for index k fails and no other request
\* writes in between, the request ends with error 500 and no success
\* response, nothing is rolled back, and each contact has the position of
\* the last index below k at which its id occurs in the list, or, when its
\* id occurs at no index below k, the position (and the other fields) it
\* had before the request; no contact is added or removed.
C5_PartialReorder ==
  \A r \in Reqs :
    (ReorderFailed(r) /\ ~hist[r].interfered) =>
      LET ids == req[r].orderedIds.v
          k == loc[r].index IN
        /\ res[r].status = 0
        /\ k < Len(ids)
        /\ IdsOf(contacts) = IdsOf(hist[r].before)
        /\ \A d \in contacts :
             IF LastPlace(ids, k, d._id) # 0
             THEN d.position = LastPlace(ids, k, d._id) - 1
             ELSE d \in hist[r].before

\* A reorder of two distinct existing contacts failed at index 1: the
\* first contact has moved to position 0, the second is as it was.
C5_Witness ==
  \E r \in Reqs :
    /\ ReorderFailed(r)
    /\ loc[r].index = 1
    /\ Len(req[r].orderedIds.v) = 2
    /\ Distinct(req[r].orderedIds.v)
    /\ FindById(req[r].orderedIds.v[1]) # {}
    /\ FindById(req[r].orderedIds.v[1]) \cap hist[r].before = {}
    /\ FindById(req[r].orderedIds.v[2]) # {}
    /\ FindById(req[r].orderedIds.v[2]) \subseteq hist[r].before

(* ------------------------------------------------------------------ *)
(* C6                                                                  *)
(* ------------------------------------------------------------------ *)

\* The awaited findByIdAndUpdate or findByIdAndDelete of slot r is settled
\* in this step.
LookupSettles(r) ==
  /\ pc[r] \in {"findByIdAndUpdate", "findByIdAndDelete"}
  /\ pc'[r] = "done"

AddDone(r) == req[r].op = "addContact" /\ Ended(r)

\* The contact a successful addContact is said to create from its body.
Untrimmed(r) ==
  [_id |-> loc[r].newContact._id,
   name |-> req[r].body.name.v,
   title |-> req[r].body.title.v,
   email |-> req[r].body.email.v,
   position |-> 0]

\* The same with the schema's trimming of the three strings.
Trimmed(r) ==
  [_id |-> loc[r].newContact._id,
   name |-> Trim(req[r].body.name.v),
   title |-> Trim(req[r].body.title.v),
   email |-> Trim(req[r].body.email.v),
   position |-> 0]

\* The checks come in the order 401, 403, 400, and nothing is persisted
\* by a request that fails one of them.
AddChecksInOrder(r) ==
  AddDone(r) =>
    /\ req[r].user = NoUser => err[r] = 401
    /\ (req[r].user # NoUser /\ ~ByAdmin(r)) => err[r] = 403
    /\ (ByAdmin(r) /\ MissingField(req[r].body)) => err[r] = 400
    /\ err[r] \in {401, 403, 400} =>
         res[r].status = 0 /\ loc[r].newContact = <<>>

\* C7 as stated: addContact checks user (401), admin level (403) and the
\* three fields (400) in this order; an admin's request with all three
\* fields adds one contact with those fields and position 0 and answers
\* 201 with it.
C7_AddsGivenFields ==
  \A r \in Reqs :
    /\ AddChecksInOrder(r)
    /\ (AddDone(r) /\ res[r].status = 201) =>
         Untrimmed(r) \in contacts /\ res[r].body = <<Untrimmed(r)>>

\* The step in which the save() of slot r is settled.
SaveSettles(r) == pc[r] = "save" /\ pc'[r] = "done"

\* C7 amended: addContact checks user (401), admin level (403) and the
\* three fields (400) in this order, and a request that fails a check
\* persists nothing; an admin's request with all three fields adds exactly
\* one new contact with the three fields trimmed of surrounding white space
\* and the default position 0 (whatever positions exist), leaves every
\* existing contact unchanged and answers 201 with the created contact,
\* provided every field is non-empty once trimmed and the save does not
\* fail; otherwise it ends with error 500 and persists nothing.
C7_AddsTrimmedFields ==
  /\ [](\A r \in Reqs :
         /\ AddChecksInOrder(r)
         /\ (AddDone(r) /\ ByAdmin(r) /\ ~MissingField(req[r].body)) =>
              \/ /\ res[r].status = 201 /\ err[r] = 0
                 /\ res[r].body = <<Trimmed(r)>>
                 /\ Trimmed(r).name # <<>> /\ Trimmed(r).title # <<>>
                 /\ Trimmed(r).email # <<>>
              \/ /\ res[r].status = 0 /\ err[r] = 500
                 /\ loc[r].error = "ValidationError" =>
                      ~(Trimmed(r).name # <<>> /\ Trimmed(r).title # <<>>
                          /\ Trimmed(r).email # <<>>))
  /\ [][\A r \in Reqs :
          /\ (req'[r].op = "addContact" /\ ~SaveSettles(r)) => contacts' = contacts
          /\ SaveSettles(r) =>
               IF res'[r].status = 201
               THEN /\ contacts' = contacts \cup {Trimmed(r)}
                    /\ Trimmed(r)._id \notin IdsOf(contacts)
               ELSE contacts' = contacts]_vars

\* An admin's addContact with padded fields has added a contact at
\* position 0 beside a contact at position 1 and answered 201.
C7_Witness ==
  \E r \in Reqs :
    /\ AddDone(r)
    /\ res[r].status = 201
    /\ Untrimmed(r) # Trimmed(r)
    /\ Trimmed(r) \in contacts
    /\ \E d \in contacts : d.position = 1

(* ------------------------------------------------------------------ *)
(* C8                                                                  *)
(* ------------------------------------------------------------------ *)

\* The stored positions are those the list of slot r asks for.
MatchesOrder(r) ==
  \A i \in 1..Len(req[r].orderedIds.v) :
    \A d \in FindById(req[r].orderedIds.v[i]) : d.position = i - 1

\* Both slots hold an admin's reorder of the same existing contacts, each
\* of them answered with 200.
TwoReordersDone(r, q) ==
  /\ r # q
  /\ ReorderDone(r) /\ ReorderDone(q)
  /\ Distinct(req[r].orderedIds.v) /\ Distinct(req[q].orderedIds.v)
  /\ {req[r].orderedIds.v[i] : i \in 1..Len(req[r].orderedIds.v)}
       = {req[q].orderedIds.v[i] : i \in 1..Len(req[q].orderedIds.v)}
  /\ \A i \in 1..Len(req[r].orderedIds.v) : FindById(req[r].orderedIds.v[i]) # {}

\* C8: two admins' reorderContacts requests over the same contacts are not
\* isolated: the stored positions can match neither request's order after
\* both have answered 200 (C8_Witness is such an outcome, with two contacts
\* at one position), and they do so only when the updates of the two
\* requests interleaved: every serial execution leaves the order of one of
\* the two requests.
C8_MismatchOnlyByInterleaving ==
  \A r, q \in Reqs :
    (TwoReordersDone(r, q) /\ ~MatchesOrder(r) /\ ~MatchesOrder(q)) =>
      (hist[r].interfered \/ hist[q].interfered)

\* Both reorders have answered 200, the positions match neither list and
\* two contacts have the same position.
C8_Witness ==
  \E r, q \in Reqs :
    /\ TwoReordersDone(r, q)
    /\ ~MatchesOrder(r) /\ ~MatchesOrder(q)
    /\ \E d, e \in contacts : d._id # e._id /\ d.position = e.position

(* ------------------------------------------------------------------ *)
(* C9                                                                  *)
(* ------------------------------------------------------------------ *)

\* The outcome of the request in slot r: exactly one of a success response
\* and a forwarded error once it has ended, none before.
OneOutcome(r) ==
  /\ res[r].status \in {0, 200, 201}
  /\ err[r] \in {0, 401, 403, 400, 404, 500}
  /\ Ended(r) => (res[r].status # 0) # (err[r] # 0)
  /\ ~Ended(r) => res[r].status = 0 /\ err[r] = 0

\* A rejected database call ends the request with the forwarded 500.
RejectionForwarded ==
  [][\A r \in Reqs :
       (Awaiting(r) /\ pc'[r] = "done" /\ res'[r].status = 0) =>
          err'[r] \in {404, 500}]_vars

\* The database settles every call a handler awaits.
Settles(r) == Resolve(r, UserDbs) \/ DbFail(r)

FairSeqSpec == SeqSpec /\ WF_vars(Settles("r1"))

\* C9: every invocation of one of the five handlers terminates with
\* exactly one outcome, a success response (200 or 201) or an error (401,
\* 403, 400, 404 or 500) forwarded to the error responder, never both and
\* never neither, and a database call that fails ends it with the
\* forwarded 500.
C9_ExactlyOneOutcome ==
  /\ [](\A r \in Reqs : OneOutcome(r))
  /\ RejectionForwarded
  /\ \A r \in Reqs : (req[r].op # "none") ~> Ended(r)

\* A reorder whose second update was rejected has ended with the forwarded
\* 500 and no response.
C9_Witness ==
  \E r \in Reqs :
    /\ req[r].op = "reorderContacts"
    /\ Ended(r)
    /\ loc[r].index = 1
    /\ err[r] = 500
    /\ res[r].status = 0

(* ------------------------------------------------------------------ *)
(* C10                                                                 *)
(* ------------------------------------------------------------------ *)

\* The ids of the list of slot r.
Listed(r) == {req[r].orderedIds.v[i] : i \in 1..Len(req[r].orderedIds.v)}

====
